---- MODULE Spec2Model ----
(***************************************************************************)
(* A model of the ibnsina HTTP router: route registration (Handle, Use,    *)
(* Group), the segment matcher (route.match), middleware composition       *)
(* (wrap), request dispatch (ServeHTTP) and the server lifecycle (Run).     *)
(*                                                                         *)
(* Strings are sequences of one-character strings, so that Split, Join,    *)
(* Cut, HasPrefix, ToUpper and the regular-expression search are computed  *)
(* character by character, as the Go code computes them.                   *)
(***************************************************************************)
EXTENDS Integers, Sequences, FiniteSets, TLC

VARIABLES
    routes,            \* Router.routes: the route table, in registration order
    middlewares,       \* Router.middlewares
    NotFound,          \* Router.NotFound
    MethodNotAllowed,  \* Router.MethodNotAllowed
    Options,           \* Router.Options
    rxPatterns,        \* package-level regex cache: source text -> compiled regex
    groups,            \* the Group values created so far
    log,               \* history: the arguments of every Handle call so far
    last,              \* what the latest ServeHTTP call did (None before any)
    probe,             \* the result of the latest direct route.match call
    run                \* one Run call: its goroutines, channels and server

routerVars == <<routes, middlewares, NotFound, MethodNotAllowed, Options,
                rxPatterns, groups, log, last, probe>>

vars == <<routes, middlewares, NotFound, MethodNotAllowed, Options,
          rxPatterns, groups, log, last, probe, run>>

None == [kind |-> "none"]

-----------------------------------------------------------------------------
(* Characters and strings                                                  *)

Digits == <<"0", "1", "2", "3", "4", "5", "6", "7", "8", "9">>
Lower == <<"a", "b", "c", "d", "e", "f", "g", "h", "i", "j", "k", "l", "m",
           "n", "o", "p", "q", "r", "s", "t", "u", "v", "w", "x", "y", "z">>
Upper == <<"A", "B", "C", "D", "E", "F", "G", "H", "I", "J", "K", "L", "M",
           "N", "O", "P", "Q", "R", "S", "T", "U", "V", "W", "X", "Y", "Z">>

IndexIn(seq, c) == IF \E i \in DOMAIN seq : seq[i] = c
                   THEN CHOOSE i \in DOMAIN seq : seq[i] = c
                   ELSE 0

\* The byte value of a character (ASCII), used by regex character ranges.
Code(c) ==
    IF IndexIn(Digits, c) > 0 THEN 47 + IndexIn(Digits, c)
    ELSE IF IndexIn(Upper, c) > 0 THEN 64 + IndexIn(Upper, c)
    ELSE IF IndexIn(Lower, c) > 0 THEN 96 + IndexIn(Lower, c)
    ELSE 0

\* Every character a request segment of the model can hold.
Alphabet == {Digits[i] : i \in DOMAIN Digits} \cup {Lower[i] : i \in DOMAIN Lower}
            \cup {Upper[i] : i \in DOMAIN Upper} \cup {".", ":", "|", "-"}

UpperChar(c) == IF IndexIn(Lower, c) > 0 THEN Upper[IndexIn(Lower, c)] ELSE c

\* strings.ToUpper
ToUpper(s) == [i \in DOMAIN s |-> UpperChar(s[i])]

\* strings.HasPrefix
HasPrefix(s, prefix) ==
    Len(s) >= Len(prefix) /\ SubSeq(s, 1, Len(prefix)) = prefix

\* strings.HasSuffix
HasSuffix(s, suffix) ==
    Len(s) >= Len(suffix) /\ SubSeq(s, Len(s) - Len(suffix) + 1, Len(s)) = suffix

\* strings.TrimPrefix
TrimPrefix(s, prefix) ==
    IF HasPrefix(s, prefix) THEN SubSeq(s, Len(prefix) + 1, Len(s)) ELSE s

\* strings.Cut(s, sep) for a one-character separator: the text before and
\* after the first sep, and whether sep occurs.
Cut(s, sep) ==
    IF \E i \in DOMAIN s : s[i] = sep
    THEN LET i == CHOOSE k \in DOMAIN s :
                      s[k] = sep /\ \A j \in 1..(k - 1) : s[j] # sep
         IN  [before |-> SubSeq(s, 1, i - 1),
              after  |-> SubSeq(s, i + 1, Len(s)),
              found  |-> TRUE]
    ELSE [before |-> s, after |-> <<>>, found |-> FALSE]

RECURSIVE SplitAcc(_, _, _, _)
SplitAcc(s, sep, i, cur) ==
    IF i > Len(s) THEN <<cur>>
    ELSE IF s[i] = sep THEN <<cur>> \o SplitAcc(s, sep, i + 1, <<>>)
    ELSE SplitAcc(s, sep, i + 1, Append(cur, s[i]))

\* strings.Split(s, sep) for a one-character separator; Split("", "/") is [""].
Split(s, sep) == SplitAcc(s, sep, 1, <<>>)

\* strings.Join
RECURSIVE Join(_, _)
Join(elems, sep) ==
    IF Len(elems) = 0 THEN <<>>
    ELSE IF Len(elems) = 1 THEN elems[1]
    ELSE elems[1] \o sep \o Join(Tail(elems), sep)

\* slices.Contains
Contains(list, x) == \E i \in DOMAIN list : list[i] = x

-----------------------------------------------------------------------------
(* Regular expressions: the fragment of Go's syntax the routes use.        *)
(*   regex := ["^"] item* ["$"]     item := atom ["+"]                     *)
(*   atom  := "." | "[" lo "-" hi "]" | a literal character                *)

RxSpecial == {"+", "[", "]", "^", "$", "(", ")", "*", "?", "|", "{", "}"}

RxBad == [cls |-> {}, plus |-> FALSE, bad |-> TRUE]

RECURSIVE RxItems(_)
RxItems(s) ==
    IF Len(s) = 0 THEN <<>>
    ELSE
      LET isClass == s[1] = "["
          classOk == Len(s) >= 5 /\ s[3] = "-" /\ s[5] = "]"
                     /\ Code(s[2]) > 0 /\ Code(s[2]) <= Code(s[4])
          atomLen == IF isClass THEN 5 ELSE 1
          cls == IF isClass
                 THEN {c \in Alphabet : Code(s[2]) <= Code(c) /\ Code(c) <= Code(s[4])}
                 ELSE IF s[1] = "." THEN Alphabet
                 ELSE {s[1]}
          bad == IF isClass THEN ~classOk ELSE s[1] \in RxSpecial
          plus == Len(s) > atomLen /\ s[atomLen + 1] = "+"
          used == IF plus THEN atomLen + 1 ELSE atomLen
      IN  IF bad THEN <<RxBad>>
          ELSE <<[cls |-> cls, plus |-> plus, bad |-> FALSE]>>
               \o RxItems(SubSeq(s, used + 1, Len(s)))

\* regexp.Compile: the parsed form of the source text rx.
Compile(rx) ==
    LET front == Len(rx) > 0 /\ rx[1] = "^"
        s1 == IF front THEN Tail(rx) ELSE rx
        back == Len(s1) > 0 /\ s1[Len(s1)] = "$"
        s2 == IF back THEN SubSeq(s1, 1, Len(s1) - 1) ELSE s1
        items == RxItems(s2)
    IN  [front |-> front, back |-> back, items |-> items,
         valid |-> \A i \in DOMAIN items : ~items[i].bad]

\* The positions at which items[k..] can stop when started at position i of s.
RECURSIVE RxEnds(_, _, _, _)
RxEnds(items, k, s, i) ==
    IF k > Len(items) THEN {i}
    ELSE
      LET it == items[k]
          runs == IF it.plus
                  THEN {j \in (i + 1)..(Len(s) + 1) :
                            \A t \in i..(j - 1) : s[t] \in it.cls}
                  ELSE IF i <= Len(s) /\ s[i] \in it.cls THEN {i + 1} ELSE {}
      IN  UNION {RxEnds(items, k + 1, s, j) : j \in runs}

\* (*regexp.Regexp).MatchString: whether s CONTAINS a match of the regex.
MatchString(re, s) ==
    \E i \in (IF re.front THEN {1} ELSE 1..(Len(s) + 1)) :
        \E j \in RxEnds(re.items, 1, s, i) : re.back => j = Len(s) + 1

-----------------------------------------------------------------------------
(* Request contexts: context.WithValue chains, newest entry last.          *)

\* type ctxKey string
ctxKey(name) == [type |-> "ctxKey", name |-> name]

\* context.Background(), the context of an incoming request
Background == <<>>

\* context.WithValue
WithValue(ctx, key, val) == Append(ctx, [key |-> key, val |-> val])

KeyEq(a, b) == a.type = b.type /\ a.name = b.name

\* ctx.Value(key): the newest value stored under key, or nil
Value(ctx, key) ==
    IF \E i \in DOMAIN ctx : KeyEq(ctx[i].key, key)
    THEN LET i == CHOOSE k \in DOMAIN ctx :
                      /\ KeyEq(ctx[k].key, key)
                      /\ \A j \in (k + 1)..Len(ctx) : ~KeyEq(ctx[j].key, key)
         IN  ctx[i].val
    ELSE [type |-> "nil"]

StringVal(s) == [type |-> "string", v |-> s]

\* Param: the string stored under ctxKey(name), "" when there is none
Param(ctx, name) ==
    LET value == Value(ctx, ctxKey(name))
    IN  IF value.type = "string" THEN value.v ELSE <<>>

-----------------------------------------------------------------------------
(* Handlers and middlewares.  A Handler value is the terminal function and *)
(* the middlewares wrapped around it, outermost first.  A middleware runs  *)
(* its entry code, calls the handler it wraps once, then runs its exit     *)
(* code.                                                                   *)

Terminal(id) == [chain |-> <<>>, term |-> id]

\* middleware(handler): the Handler a Middleware returns
Apply(mw, handler) == [chain |-> <<mw>> \o handler.chain, term |-> handler.term]

\* wrapFrom folding from the first middleware to the last, which leaves the
\* last-declared middleware outermost
RECURSIVE wrapFromForward(_, _, _)
wrapFromForward(mws, index, handler) ==
    IF index < 1 THEN handler
    ELSE wrapFromForward(mws, index - 1,
                         Apply(mws[Len(mws) - index + 1], handler))

RECURSIVE wrapFrom(_, _, _)
wrapFrom(mws, index, handler) ==
    IF index < 1 THEN handler
    ELSE wrapFrom(mws, index - 1, Apply(mws[index], handler))

\* Router.wrap
wrap(handler) == wrapFrom(middlewares, Len(middlewares), handler)

\* The events of one call of a Handler value, in order.
Events(handler) ==
    LET n == Len(handler.chain)
    IN  [i \in 1..n |-> [ev |-> "enter", id |-> handler.chain[i]]]
        \o <<[ev |-> "handler", id |-> handler.term]>>
        \o [i \in 1..n |-> [ev |-> "exit", id |-> handler.chain[n + 1 - i]]]

-----------------------------------------------------------------------------
(* HTTP methods and the default handlers                                   *)

GET == <<"G", "E", "T">>
HEAD == <<"H", "E", "A", "D">>
POST == <<"P", "O", "S", "T">>
PUT == <<"P", "U", "T">>
PATCH == <<"P", "A", "T", "C", "H">>
DELETE == <<"D", "E", "L", "E", "T", "E">>
CONNECT == <<"C", "O", "N", "N", "E", "C", "T">>
OPTIONS == <<"O", "P", "T", "I", "O", "N", "S">>
TRACE == <<"T", "R", "A", "C", "E">>

\* A method name as a caller may spell it
get == <<"g", "e", "t">>

allMethods == <<GET, HEAD, POST, PUT, PATCH, DELETE, CONNECT, OPTIONS, TRACE>>

StatusNotFound == 404
StatusMethodNotAllowed == 405
StatusNoContent == 204

defaultNotFound == Terminal("defaultNotFound")
defaultMethodNotAllowed == Terminal("defaultMethodNotAllowed")
defaultOptions == Terminal("defaultOptions")

\* What the terminal function writes to the response.  A handler of the
\* embedding application writes nothing itself, which net/http sends as 200.
Writes(term, method) ==
    IF term = "defaultNotFound"
    THEN [status |-> StatusNotFound,
          body |-> <<"the requested resource could not be found\n">>]
    ELSE IF term = "defaultMethodNotAllowed"
    THEN [status |-> StatusMethodNotAllowed,
          body |-> <<"the method ">> \o method
                   \o <<" is not supported for the requested resource\n">>]
    ELSE IF term = "defaultOptions"
    THEN [status |-> StatusNoContent, body |-> <<>>]
    ELSE [status |-> 200, body |-> <<>>]

-----------------------------------------------------------------------------
(* route.match                                                             *)

DotDotDot == <<".", ".", ".">>

\* tail that starts one segment late
tailSkipOne(segments, index) ==
    Join(SubSeq(segments, index + 1, Len(segments)), <<"/">>)

\* The wildcard tail bound at pattern position index (1-based).
tail(segments, index) == Join(SubSeq(segments, index, Len(segments)), <<"/">>)

\* The test a regex-constrained parameter applies to a request segment.
rxAccepts(rx, segment) == MatchString(rxPatterns[rx], segment)

\* lengthOk without the comparison of the segment counts
lengthOkAlways(route, segments) == TRUE

\* The length test at the head of match.
lengthOk(route, segments) ==
    route.wildcard \/ Len(segments) = Len(route.segments)

\* The loop of match from pattern position index on.  panic: the loop
\* called MatchString on the nil *Regexp that rxPatterns gives for a source
\* text it does not hold.
RECURSIVE matchFrom(_, _, _, _)
matchFrom(route, ctx, segments, index) ==
    IF index > Len(route.segments)
    THEN [ctx |-> ctx, ok |-> TRUE, panic |-> FALSE]
    ELSE
      LET rs == route.segments[index]
          no == [ctx |-> ctx, ok |-> FALSE, panic |-> FALSE]
      IN  IF index > Len(segments) THEN no
          ELSE IF rs = DotDotDot
          THEN [ctx |-> WithValue(ctx, ctxKey(DotDotDot),
                                  StringVal(tail(segments, index))),
                ok |-> TRUE, panic |-> FALSE]
          ELSE IF HasPrefix(rs, <<":">>)
          THEN LET c == Cut(TrimPrefix(rs, <<":">>), "|")
                   bound == WithValue(ctx, ctxKey(c.before),
                                      StringVal(segments[index]))
               IN  IF c.found /\ c.after \notin DOMAIN rxPatterns
                   THEN [ctx |-> ctx, ok |-> FALSE, panic |-> TRUE]
                   ELSE IF c.found /\ rxAccepts(c.after, segments[index])
                   THEN matchFrom(route, bound, segments, index + 1)
                   ELSE IF ~c.found /\ segments[index] # <<>>
                   THEN matchFrom(route, bound, segments, index + 1)
                   ELSE no
          ELSE IF rs # segments[index] THEN no
          ELSE matchFrom(route, ctx, segments, index + 1)

match(route, ctx, segments) ==
    IF ~lengthOk(route, segments)
    THEN [ctx |-> ctx, ok |-> FALSE, panic |-> FALSE]
    ELSE matchFrom(route, ctx, segments, 1)

-----------------------------------------------------------------------------
(* Registration: Handle, Use, Group, Group.Handle                          *)

\* handleMethods without the HEAD that accompanies GET
handleMethodsNoHead(methods) ==
    IF Len(methods) = 0 THEN allMethods ELSE methods

\* The methods Handle registers for its variadic argument.
handleMethods(methods) ==
    LET withHead == IF Contains(methods, GET) /\ ~Contains(methods, HEAD)
                    THEN Append(methods, HEAD)
                    ELSE methods
    IN  IF Len(withHead) = 0 THEN allMethods ELSE withHead

\* newRoutes that stores the handler as given, without the chain around it
newRoutesUnwrapped(path, handler, methods) ==
    LET ms == handleMethods(methods)
        segments == Split(path, "/")
    IN  [index \in 1..Len(ms) |->
            [method   |-> ToUpper(ms[index]),
             segments |-> segments,
             wildcard |-> HasSuffix(path, <<"/", ".", ".", ".">>),
             handler  |-> handler]]

\* The routes one Handle call builds, in the order it appends them.
newRoutes(path, handler, methods) ==
    LET ms == handleMethods(methods)
        segments == Split(path, "/")
    IN  [index \in 1..Len(ms) |->
            [method   |-> ToUpper(ms[index]),
             segments |-> segments,
             wildcard |-> HasSuffix(path, <<"/", ".", ".", ".">>),
             handler  |-> wrap(handler)]]

Put(cache, key, val) ==
    [k \in DOMAIN cache \cup {key} |-> IF k = key THEN val ELSE cache[k]]

\* The loop of Handle that compiles the regex of every parameter segment:
\* the cache it leaves, and whether regexp.MustCompile panicked, which ends
\* the loop and the Handle call at that segment.
RECURSIVE compileFrom(_, _, _)
compileFrom(segments, index, cache) ==
    IF index > Len(segments) THEN [cache |-> cache, panic |-> FALSE]
    ELSE LET c == Cut(segments[index], "|")
         IN  IF HasPrefix(segments[index], <<":">>) /\ c.found
             THEN IF Compile(c.after).valid
                  THEN compileFrom(segments, index + 1,
                                   Put(cache, c.after, Compile(c.after)))
                  ELSE [cache |-> cache, panic |-> TRUE]
             ELSE compileFrom(segments, index + 1, cache)

\* The state change of Router.Handle(path, handler, methods...), whether it
\* returns or ends in the panic of regexp.MustCompile (which the caller may
\* recover from); via and given record in the history who called it and
\* with which handler.
register(path, handler, methods, via, given) ==
    LET new == newRoutes(path, handler, methods)
        compiled == compileFrom(Split(path, "/"), 1, rxPatterns)
    IN  /\ routes' = routes \o new
        /\ rxPatterns' = compiled.cache
        /\ log' = Append(log, [via |-> via, path |-> path, handler |-> given,
                               methods |-> methods, chain |-> middlewares,
                               first |-> Len(routes) + 1,
                               count |-> Len(new),
                               panicked |-> compiled.panic])
        /\ last' = None
        /\ probe' = None
        /\ UNCHANGED <<middlewares, NotFound, MethodNotAllowed, Options, groups,
                       run>>

Handle(path, handler, methods) ==
    register(path, handler, methods, 0, handler)

Use(mws) ==
    /\ middlewares' = middlewares \o mws
    /\ last' = None
    /\ probe' = None
    /\ UNCHANGED <<routes, NotFound, MethodNotAllowed, Options, rxPatterns,
                   groups, log, run>>

\* Router.Group: a new Group value holding the router and its middlewares.
Group(mws) ==
    /\ groups' = Append(groups, [middlewares |-> mws])
    /\ last' = None
    /\ probe' = None
    /\ UNCHANGED <<routes, middlewares, NotFound, MethodNotAllowed, Options,
                   rxPatterns, log, run>>

\* Group.Handle on the group groups[g].
GroupHandle(g, path, handler, methods) ==
    register(path, wrap(handler), methods, g, handler)

\* Assignment to one of the exported fallback fields of the Router.
SetFallback(field, handler) ==
    /\ NotFound' = IF field = "NotFound" THEN handler ELSE NotFound
    /\ MethodNotAllowed' =
          IF field = "MethodNotAllowed" THEN handler ELSE MethodNotAllowed
    /\ Options' = IF field = "Options" THEN handler ELSE Options
    /\ last' = None
    /\ probe' = None
    /\ UNCHANGED <<routes, middlewares, rxPatterns, groups, log, run>>

-----------------------------------------------------------------------------
(* Dispatch: Router.ServeHTTP                                              *)

\* type contextKey int
contextKey(n) == [type |-> "contextKey", name |-> n]

\* One call ServeHTTP makes: which handler, the middlewares ServeHTTP applied
\* to obtain it, and the context and the request context it is given.
Call(target, index, handler, applied, ctx, reqctx) ==
    [target |-> target, index |-> index, handler |-> handler,
     applied |-> applied, ctx |-> ctx, reqctx |-> reqctx]

\* scan without the return after the exact match: the loop goes on and calls
\* every later route of the same path and method as well
RECURSIVE scanNoReturn(_, _, _, _, _)
scanNoReturn(index, method, segments, ctx, methods) ==
    IF index > Len(routes) THEN [calls |-> <<>>, methods |-> methods]
    ELSE
      LET m == match(routes[index], Background, segments)
      IN  IF m.ok
          THEN IF method = routes[index].method
               THEN LET rest == scanNoReturn(index + 1, method, segments,
                                             ctx, methods)
                    IN  [calls |-> <<Call("route", index, routes[index].handler,
                                          <<>>, ctx, m.ctx)>> \o rest.calls,
                         methods |-> rest.methods]
               ELSE scanNoReturn(index + 1, method, segments, ctx,
                                 IF ~Contains(methods, routes[index].method)
                                 THEN Append(methods, routes[index].method)
                                 ELSE methods)
          ELSE scanNoReturn(index + 1, method, segments, ctx, methods)

\* The context left by the matches of the routes before position index when
\* each of them starts from the context the one before it returned.
RECURSIVE carried(_, _)
carried(index, segments) ==
    IF index = 1 THEN Background
    ELSE match(routes[index - 1], carried(index - 1, segments), segments).ctx

\* scan with one context handed from each match to the next, so that the
\* bindings of the routes tried earlier stay in it
RECURSIVE scanCarry(_, _, _, _, _)
scanCarry(index, method, segments, ctx, methods) ==
    IF index > Len(routes) THEN [calls |-> <<>>, methods |-> methods]
    ELSE
      LET m == match(routes[index], carried(index, segments), segments)
      IN  IF m.ok
          THEN IF method = routes[index].method
               THEN [calls |-> <<Call("route", index, routes[index].handler,
                                      <<>>, ctx, m.ctx)>>,
                     methods |-> methods]
               ELSE scanCarry(index + 1, method, segments, ctx,
                              IF ~Contains(methods, routes[index].method)
                              THEN Append(methods, routes[index].method)
                              ELSE methods)
          ELSE scanCarry(index + 1, method, segments, ctx, methods)

\* scan with the chain applied again to the handler of the matching route
RECURSIVE scanRewrap(_, _, _, _, _)
scanRewrap(index, method, segments, ctx, methods) ==
    IF index > Len(routes) THEN [calls |-> <<>>, methods |-> methods]
    ELSE
      LET m == match(routes[index], Background, segments)
      IN  IF m.ok
          THEN IF method = routes[index].method
               THEN [calls |-> <<Call("route", index,
                                      wrap(routes[index].handler),
                                      middlewares, ctx, m.ctx)>>,
                     methods |-> methods]
               ELSE scanRewrap(index + 1, method, segments, ctx,
                               IF ~Contains(methods, routes[index].method)
                               THEN Append(methods, routes[index].method)
                               ELSE methods)
          ELSE scanRewrap(index + 1, method, segments, ctx, methods)

\* The loop over router.routes, from position index on: the calls made in
\* it and the methods collected for Allow.
RECURSIVE scan(_, _, _, _, _)
scan(index, method, segments, ctx, methods) ==
    IF index > Len(routes) THEN [calls |-> <<>>, methods |-> methods]
    ELSE
      LET m == match(routes[index], Background, segments)
      IN  IF m.ok
          THEN IF method = routes[index].method
               THEN [calls |-> <<Call("route", index, routes[index].handler,
                                      <<>>, ctx, m.ctx)>>,
                     methods |-> methods]
               ELSE scan(index + 1, method, segments, ctx,
                         IF ~Contains(methods, routes[index].method)
                         THEN Append(methods, routes[index].method)
                         ELSE methods)
          ELSE scan(index + 1, method, segments, ctx, methods)

\* allowValue without the OPTIONS appended to the collected methods
allowValueNoOptions(methods) == Join(methods, <<",", " ">>)

\* The value ServeHTTP gives the Allow header.
allowValue(methods) == Join(Append(methods, OPTIONS), <<",", " ">>)

\* fallback with the test on the collected methods dropped: every request
\* without an exact match goes to NotFound
fallbackNotFound(method, methods, ctx) ==
    Call("NotFound", 0, wrap(NotFound), middlewares, ctx, Background)

\* The fallback ServeHTTP calls after a scan without an exact match.
fallback(method, methods, ctx) ==
    IF Len(methods) > 0
    THEN IF method = OPTIONS
         THEN Call("Options", 0, wrap(Options), middlewares, ctx, Background)
         ELSE Call("MethodNotAllowed", 0, wrap(MethodNotAllowed), middlewares, ctx, Background)
    ELSE Call("NotFound", 0, wrap(NotFound), middlewares, ctx, Background)

RECURSIVE AllEvents(_)
AllEvents(calls) ==
    IF Len(calls) = 0 THEN <<>>
    ELSE Events(calls[1].handler) \o AllEvents(Tail(calls))

\* Everything one ServeHTTP call does for a request.
serve(method, path, tid, now) ==
    LET segments == Split(path, "/")
        values == [type |-> "Values", TraceID |-> tid, Now |-> now, Status |-> 0]
        ctx == WithValue(Background, contextKey(1), values)
        sc == scan(1, method, segments, ctx, <<>>)
        exact == Len(sc.calls) > 0
        setAllow == ~exact /\ Len(sc.methods) > 0
        calls == IF exact THEN sc.calls
                 ELSE <<fallback(method, sc.methods, ctx)>>
        w == Writes(calls[1].handler.term, method)
    IN  [kind |-> "served", method |-> method, path |-> path,
         calls |-> calls, events |-> AllEvents(calls),
         status |-> w.status, body |-> w.body,
         traceHeader |-> tid,
         hasAllow |-> setAllow,
         allow |-> IF setAllow THEN allowValue(sc.methods) ELSE <<>>]

ServeHTTP(method, path, tid, now) ==
    /\ last' = serve(method, path, tid, now)
    /\ probe' = None
    /\ UNCHANGED <<routes, middlewares, NotFound, MethodNotAllowed, Options,
                   rxPatterns, groups, log, run>>

\* A direct call of routes[index].match on the segments of path.
Match(index, path) ==
    /\ index \in DOMAIN routes
    /\ probe' = [kind |-> "matched", index |-> index, path |-> path,
                 result |-> match(routes[index], Background, Split(path, "/"))]
    /\ last' = None
    /\ UNCHANGED <<routes, middlewares, NotFound, MethodNotAllowed, Options,
                   rxPatterns, groups, log, run>>

-----------------------------------------------------------------------------
(* Router.Run: the goroutine of the caller, the goroutine that serves, the *)
(* http.Server they share, and the interrupts the process receives.        *)

nil == "nil"
ErrServerClosed == "http: Server closed"
ListenError == "listen error"
DeadlineExceeded == "context deadline exceeded"
ShutdownError == "shutdown: listener close error"
CloseError == "close error"

\* timeout := 5 * time.Second, in seconds
ShutdownTimeout == 5

\* make(chan error, 1) and make(chan os.Signal, 1)
ErrsCap == 1
SignalsCap == 1

\* Bounds of the model of Run
MaxConns == 1
MaxInterrupts == 2

\* The state before Run is called.
NotRunning ==
    [ pc         |-> "idle",      \* where the caller of Run stands
      task       |-> "none",      \* where the serving goroutine stands
      taskErr    |-> nil,         \* what ListenAndServe returned
      errs       |-> <<>>,        \* the buffer of the channel errs
      signals    |-> <<>>,        \* the buffer of the channel signals
      notify     |-> FALSE,       \* signal.Notify(signals, ...) is in force
      inShutdown |-> FALSE,       \* the server was told to shut down or close
      conns      |-> 0,           \* connections with a request in progress
      elapsed    |-> 0,           \* seconds since the shutdown context began
      selected   |-> "none",      \* history: the case the select took
      shutdown   |-> "notcalled", \* history: srv.Shutdown and its result
      close      |-> "notcalled", \* history: srv.Close and its result
      interrupts |-> 0,           \* history: interrupts sent to the process
      ret        |-> "pending" ]  \* the value Run returned

\* Run is called: the server and the channel errs are made.
RunCall ==
    /\ run.pc = "idle"
    /\ run' = [run EXCEPT !.pc = "go"]
    /\ UNCHANGED routerVars

\* go func() { errs <- srv.ListenAndServe() }()
Go ==
    /\ run.pc = "go"
    /\ run' = [run EXCEPT !.pc = "notify", !.task = "serving"]
    /\ UNCHANGED routerVars

\* signals := make(chan os.Signal, 1); signal.Notify(signals, os.Interrupt)
Notify ==
    /\ run.pc = "notify"
    /\ run' = [run EXCEPT !.pc = "select", !.notify = TRUE]
    /\ UNCHANGED routerVars

\* case err := <-errs: return err
SelectErrs ==
    /\ run.pc = "select"
    /\ Len(run.errs) > 0
    /\ run' = [run EXCEPT !.pc = "done", !.selected = "errs",
                          !.ret = Head(run.errs), !.errs = Tail(run.errs)]
    /\ UNCHANGED routerVars

\* case <-signals: the shutdown context is made and srv.Shutdown is called,
\* which closes the listeners at once.
SelectSignals ==
    /\ run.pc = "select"
    /\ Len(run.signals) > 0
    /\ run' = [run EXCEPT !.pc = "shutdown", !.selected = "signals",
                          !.signals = Tail(run.signals),
                          !.shutdown = "running", !.inShutdown = TRUE,
                          !.elapsed = 0]
    /\ UNCHANGED routerVars

\* A second of the shutdown context passes while srv.Shutdown waits.
Tick ==
    /\ run.pc = "shutdown"
    /\ run.elapsed < ShutdownTimeout
    /\ run' = [run EXCEPT !.elapsed = run.elapsed + 1]
    /\ UNCHANGED routerVars

\* The results srv.Shutdown can return now: nil or the error of closing the
\* listeners once no connection is busy, the context's error once its
\* timeout has passed.
ShutdownResults ==
    (IF run.conns = 0 THEN {nil, ShutdownError} ELSE {})
    \cup (IF run.elapsed = ShutdownTimeout THEN {DeadlineExceeded} ELSE {})

\* ShutdownReturn without the test of the error: srv.Close is called after
\* every shutdown
ShutdownReturnAlwaysClose ==
    /\ run.pc = "shutdown"
    /\ \E err \in ShutdownResults :
           run' = [run EXCEPT !.shutdown = err, !.pc = "close"]
    /\ UNCHANGED routerVars

\* if err := srv.Shutdown(ctx); err != nil { ... }
ShutdownReturn ==
    /\ run.pc = "shutdown"
    /\ \E err \in ShutdownResults :
           run' = [run EXCEPT !.shutdown = err,
                             !.pc = IF err # nil THEN "close" ELSE "recv"]
    /\ UNCHANGED routerVars

\* Close that returns the error of srv.Shutdown when srv.Close fails
CloseReturnsOuterErr ==
    /\ run.pc = "close"
    /\ \E err \in {nil, CloseError} :
           run' = [run EXCEPT !.close = err, !.inShutdown = TRUE, !.conns = 0,
                             !.pc = IF err # nil THEN "done" ELSE "recv",
                             !.ret = IF err # nil THEN run.shutdown ELSE run.ret]
    /\ UNCHANGED routerVars

\* if err := srv.Close(); err != nil { return err }
\* srv.Close closes the listeners and every connection.
Close ==
    /\ run.pc = "close"
    /\ \E err \in {nil, CloseError} :
           run' = [run EXCEPT !.close = err, !.inShutdown = TRUE, !.conns = 0,
                             !.pc = IF err # nil THEN "done" ELSE "recv",
                             !.ret = IF err # nil THEN err ELSE run.ret]
    /\ UNCHANGED routerVars

\* Recv that does not wait for a value on errs
RecvNoWait ==
    /\ run.pc = "recv"
    /\ run' = [run EXCEPT !.pc = "done",
                          !.ret = IF Len(run.errs) > 0 THEN Head(run.errs)
                                  ELSE nil,
                          !.errs = IF Len(run.errs) > 0 THEN Tail(run.errs)
                                   ELSE run.errs]
    /\ UNCHANGED routerVars

\* return <-errs
Recv ==
    /\ run.pc = "recv"
    /\ Len(run.errs) > 0
    /\ run' = [run EXCEPT !.pc = "done", !.ret = Head(run.errs),
                          !.errs = Tail(run.errs)]
    /\ UNCHANGED routerVars

\* srv.ListenAndServe fails by itself: it cannot listen, or Accept fails.
ListenFail ==
    /\ run.task = "serving"
    /\ ~run.inShutdown
    /\ run' = [run EXCEPT !.task = "returned", !.taskErr = ListenError]
    /\ UNCHANGED routerVars

\* srv.ListenAndServe returns because of srv.Shutdown or srv.Close.
ServeClosed ==
    /\ run.task = "serving"
    /\ run.inShutdown
    /\ run' = [run EXCEPT !.task = "returned", !.taskErr = ErrServerClosed]
    /\ UNCHANGED routerVars

\* errs <- (what ListenAndServe returned); the goroutine ends.
Send ==
    /\ run.task = "returned"
    /\ Len(run.errs) < ErrsCap
    /\ run' = [run EXCEPT !.task = "done", !.errs = Append(run.errs, run.taskErr)]
    /\ UNCHANGED routerVars

\* The server accepts a connection and starts on its request.
Accept ==
    /\ run.task = "serving"
    /\ ~run.inShutdown
    /\ run.conns < MaxConns
    /\ run' = [run EXCEPT !.conns = run.conns + 1]
    /\ UNCHANGED routerVars

\* A connection finishes its request and goes idle.
Finish ==
    /\ run.conns > 0
    /\ run' = [run EXCEPT !.conns = run.conns - 1]
    /\ UNCHANGED routerVars

\* The process is sent an interrupt while signal.Notify is in force: the
\* signal is put in the channel if there is room and dropped otherwise.
Interrupt ==
    /\ run.notify
    /\ run.interrupts < MaxInterrupts
    /\ run' = [run EXCEPT !.interrupts = run.interrupts + 1,
                          !.signals = IF Len(run.signals) < SignalsCap
                                      THEN Append(run.signals, "interrupt")
                                      ELSE run.signals]
    /\ UNCHANGED routerVars

-----------------------------------------------------------------------------
(* NewRouter and the specifications                                        *)

NewRouter(mws) ==
    /\ routes = <<>>
    /\ middlewares = mws
    /\ NotFound = defaultNotFound
    /\ MethodNotAllowed = defaultMethodNotAllowed
    /\ Options = defaultOptions
    /\ rxPatterns = <<>>
    /\ groups = <<>>
    /\ log = <<>>
    /\ last = None
    /\ probe = None
    /\ run = NotRunning

Slash == <<"/">>
Path1(a) == Slash \o a
Path2(a, b) == Slash \o a \o Slash \o b
Path3(a, b, c) == Slash \o a \o Slash \o b \o Slash \o c

items == <<"i", "t", "e", "m", "s">>
files == <<"f", "i", "l", "e", "s">>
users == <<"u", "s", "e", "r", "s">>

\* Bounds of the model
MaxHandle == 2
MaxMws == 2
MaxGroups == 1

TraceIDs == {<<"u", "1">>, <<"u", "2">>}
Times == {"t1"}

\* ServeHTTP and match leave the router as it was, so every step that could
\* follow one of them is a step already taken from the state before it:
\* steps start from the states in which no call is being observed.
Idle == last = None /\ probe = None

-----------------------------------------------------------------------------
(* Spec: registration on a router without middlewares, and dispatch.       *)

Patterns == {Path1(items), Path1(<<":", "x">>)}
MethodLists == {<<>>, <<GET, POST>>, <<OPTIONS>>, <<get>>}
Handlers == {"hA", "hB"}
ReqMethods == {GET, HEAD, POST, DELETE, OPTIONS}
ReqPaths == {Path1(items), Path1(<<"a">>)}

Init == NewRouter(<<>>)

DoHandle ==
    /\ Idle
    /\ Len(log) < MaxHandle
    /\ \E path \in Patterns, h \in Handlers, methods \in MethodLists :
           Handle(path, Terminal(h), methods)

DoServeHTTP ==
    /\ Idle
    /\ \E method \in ReqMethods, path \in ReqPaths, tid \in TraceIDs, now \in Times :
           ServeHTTP(method, path, tid, now)

Next == DoHandle \/ DoServeHTTP

Spec == Init /\ [][Next]_vars

-----------------------------------------------------------------------------
(* SpecFallback: the fallback fields of the Router, default or replaced.   *)

FallbackLists == {<<GET, POST>>, <<OPTIONS>>}
FallbackPaths == {Path1(items), Path1(<<"a">>)}

DoHandleFallback ==
    /\ Idle
    /\ Len(log) < MaxHandle
    /\ \E methods \in FallbackLists :
           Handle(Path1(items), Terminal("hA"), methods)

DoSetFallback ==
    /\ Idle
    /\ \E field \in {"NotFound", "MethodNotAllowed", "Options"} :
           SetFallback(field, Terminal("custom" \o field))

DoServeHTTPFallback ==
    /\ Idle
    /\ \E method \in ReqMethods, path \in FallbackPaths, tid \in TraceIDs, now \in Times :
           ServeHTTP(method, path, tid, now)

NextFallback == DoHandleFallback \/ DoSetFallback \/ DoServeHTTPFallback

SpecFallback == Init /\ [][NextFallback]_vars

-----------------------------------------------------------------------------
(* SpecRun: one call of Run on a new router.  SpecRunFair adds that the    *)
(* two goroutines keep taking their steps and that time passes during the  *)
(* shutdown; nothing is assumed of interrupts, failures and connections.   *)

NextRun ==
    \/ RunCall \/ Go \/ Notify \/ SelectErrs \/ SelectSignals
    \/ Tick \/ ShutdownReturn \/ Close \/ Recv
    \/ ListenFail \/ ServeClosed \/ Send
    \/ Accept \/ Finish \/ Interrupt

SpecRun == Init /\ [][NextRun]_vars

FairRun ==
    /\ WF_vars(RunCall) /\ WF_vars(Go) /\ WF_vars(Notify)
    /\ WF_vars(SelectErrs) /\ WF_vars(SelectSignals)
    /\ WF_vars(Tick) /\ WF_vars(ShutdownReturn) /\ WF_vars(Close)
    /\ WF_vars(Recv) /\ WF_vars(ServeClosed) /\ WF_vars(Send)

SpecRunFair == Init /\ [][NextRun]_vars /\ FairRun

-----------------------------------------------------------------------------
(* SpecCtx: routes that bind parameters and tails, registered for one      *)
(* method each, and requests that some of them match in part, in path only *)
(* or in path and method.                                                  *)

CtxPatterns ==
    { Path2(<<":", "x">>, <<"b">>),
      Path2(<<":", "y">>, <<":", "z">>),
      Path2(<<":", "x">>, DotDotDot) }
CtxMethods == {POST, DELETE}
CtxPaths ==
    { Path1(<<"a">>), Path2(<<"a">>, <<"b">>), Path2(<<"a">>, <<"c">>),
      Path3(<<"a">>, <<"c">>, <<"d">>) }

DoHandleCtx ==
    /\ Idle
    /\ Len(log) < MaxHandle
    /\ \E path \in CtxPatterns, method \in CtxMethods :
           Handle(path, Terminal("hA"), <<method>>)

DoServeHTTPCtx ==
    /\ Idle
    /\ \E method \in {POST, OPTIONS}, path \in CtxPaths,
          tid \in TraceIDs, now \in Times :
           ServeHTTP(method, path, tid, now)

NextCtx == DoHandleCtx \/ DoServeHTTPCtx

SpecCtx == Init /\ [][NextCtx]_vars

-----------------------------------------------------------------------------
(* SpecMatch: routes of many patterns, and route.match called on many      *)
(* request paths.                                                          *)

id == <<"i", "d">>
DigitsRx == <<"[", "0", "-", "9", "]", "+">>

MatchPatterns ==
    { Path1(items),
      Path2(users, <<":">> \o id),
      Path2(users, <<":">> \o id \o <<"|">> \o DigitsRx),
      Path2(users, <<":">> \o id \o <<"|", "^">> \o DigitsRx \o <<"$">>),
      Path2(files, DotDotDot),
      Path3(files, <<":", "n">>, DotDotDot),
      Path1(DotDotDot),
      Path3(<<"a">>, DotDotDot, <<"b">>) }

MatchPaths ==
    { Slash,
      Path1(items), Path2(items, <<"1">>),
      Path1(users), Path2(users, <<>>), Path2(users, <<"4", "2">>),
      Path2(users, <<"a", "1">>), Path2(users, <<"a", "b", "c">>),
      Path3(users, <<"4", "2">>, <<"x">>),
      Path1(files), Path2(files, <<>>), Path2(files, <<"a">>),
      Path3(files, <<"a">>, <<>>),
      Path3(files, <<"a">>, <<"b">>) \o Slash \o <<"c">>,
      Path3(<<"a">>, <<"x">>, <<"b">>), Path3(<<"a">>, <<"x">>, <<"y">>) }

DoHandleMatch ==
    /\ Idle
    /\ Len(log) < MaxHandle
    /\ \E path \in MatchPatterns : Handle(path, Terminal("hA"), <<POST>>)

DoMatch ==
    /\ Idle
    /\ \E index \in DOMAIN routes, path \in MatchPaths : Match(index, path)

NextMatch == DoHandleMatch \/ DoMatch

SpecMatch == Init /\ [][NextMatch]_vars

-----------------------------------------------------------------------------
(* SpecRx: Handle calls with regex-constrained parameters, some with a     *)
(* source text that does not compile, whose panic the caller recovers      *)
(* from, and route.match called on the routes they leave.                  *)

OpenParen == <<"(">>

RxPatternsIn ==
    { Path1(items),
      Path2(users, <<":">> \o id \o <<"|">> \o DigitsRx),
      Path2(users, <<":">> \o id \o <<"|">> \o OpenParen),
      Path2(<<":", "a", "|">> \o DigitsRx, <<":", "b", "|">> \o OpenParen),
      Path2(<<":", "a", "|">> \o OpenParen, <<":", "b", "|">> \o DigitsRx) }

RxPaths == {Path1(items), Path2(users, <<"4", "2">>), Path2(<<"1">>, <<"2">>)}

DoHandleRx ==
    /\ Idle
    /\ Len(log) < MaxHandle
    /\ \E path \in RxPatternsIn : Handle(path, Terminal("hA"), <<POST>>)

DoMatchRx ==
    /\ Idle
    /\ \E index \in DOMAIN routes, path \in RxPaths : Match(index, path)

NextRx == DoHandleRx \/ DoMatchRx

SpecRx == Init /\ [][NextRx]_vars

-----------------------------------------------------------------------------
(* SpecMw: middlewares given to NewRouter and added with Use, groups, and  *)
(* routes registered on the router and through a group.                    *)

Mws == {"m1", "m2"}
GroupMws == {<<"g1">>, <<"g1", "g2">>}
MwPaths == {Path1(items)}
MwMethods == {POST, DELETE, OPTIONS}

InitMw == \E mws \in {<<>>, <<"m1">>} : NewRouter(mws)

DoUse ==
    /\ Idle
    /\ Len(middlewares) < MaxMws
    /\ \E m \in Mws : Use(<<m>>)

DoGroup ==
    /\ Idle
    /\ Len(groups) < MaxGroups
    /\ \E mws \in GroupMws : Group(mws)

DoHandleMw ==
    /\ Idle
    /\ Len(log) < MaxHandle
    /\ \E path \in MwPaths : Handle(path, Terminal("hA"), <<POST>>)

DoGroupHandle ==
    /\ Idle
    /\ Len(log) < MaxHandle
    /\ \E g \in DOMAIN groups, path \in MwPaths :
           GroupHandle(g, path, Terminal("hA"), <<POST>>)

DoServeHTTPMw ==
    /\ Idle
    /\ \E method \in MwMethods, path \in MwPaths, tid \in TraceIDs, now \in Times :
           ServeHTTP(method, path, tid, now)

NextMw == DoUse \/ DoGroup \/ DoHandleMw \/ DoGroupHandle \/ DoServeHTTPMw

SpecMw == InitMw /\ [][NextMw]_vars

-----------------------------------------------------------------------------
(* SpecUse: Use and Handle calls on one router, in any order, and requests *)
(* that reach a route or a fallback.                                       *)

NextUse == DoUse \/ DoHandleMw \/ DoServeHTTPMw

SpecUse == InitMw /\ [][NextUse]_vars

-----------------------------------------------------------------------------
(* Properties of dispatch                                                  *)

Served == last.kind = "served"

\* Route i matches the path of the latest request.
PathMatch(i) == match(routes[i], Background, Split(last.path, "/")).ok

\* The routes that match the latest request in path and method.
ExactRoutes == {i \in DOMAIN routes : PathMatch(i) /\ routes[i].method = last.method}

\* The routes that match the latest request in path.
PathRoutes == {i \in DOMAIN routes : PathMatch(i)}

First(S) == CHOOSE i \in S : \A j \in S : i <= j

\* The terminal functions that ran during the latest request, in order.
Ran == SelectSeq(last.events, LAMBDA e : e.ev = "handler")

\* C1: when some registered route matches the request path and has the
\* request's method, ServeHTTP makes exactly one call, to the handler of the
\* earliest-registered such route; no other route handler and no fallback runs.
C1_FirstRegisteredWins ==
    (Served /\ ExactRoutes # {}) =>
        /\ Len(last.calls) = 1
        /\ last.calls[1].target = "route"
        /\ last.calls[1].index = First(ExactRoutes)
        /\ last.calls[1].handler = routes[First(ExactRoutes)].handler
        /\ Ran = <<[ev |-> "handler", id |-> routes[First(ExactRoutes)].handler.term]>>

\* C1 witness: two routes with different handlers both match the request in
\* path and method, and the request was dispatched.
C1_Witness ==
    /\ Served
    /\ \E i, j \in ExactRoutes :
          i < j /\ routes[i].handler # routes[j].handler
                /\ routes[i].segments # routes[j].segments

\* The method names listed in an Allow header value.
AllowSet(value) ==
    LET parts == Split(value, ",")
    IN  {TrimPrefix(parts[i], <<" ">>) : i \in DOMAIN parts}

\* C3: Allow is set exactly when no route matches path and method but some
\* route matches the path; the methods it lists are then the methods of the
\* routes that match the path, and OPTIONS.
C3_AllowHeader ==
    Served =>
        /\ last.hasAllow <=> (ExactRoutes = {} /\ PathRoutes # {})
        /\ last.hasAllow =>
              AllowSet(last.allow) = {routes[i].method : i \in PathRoutes} \cup {OPTIONS}

\* C3 witness: a request whose path is matched by routes of three or more
\* methods, none of them the request's.
C3_Witness ==
    /\ Served
    /\ last.hasAllow
    /\ last.method # OPTIONS
    /\ Cardinality({routes[i].method : i \in PathRoutes}) >= 3
    /\ \A i \in PathRoutes : routes[i].method # OPTIONS

\* /items registered once, for GET and POST, and DELETE /items requested.
ItemsScenario ==
    /\ Len(log) = 1
    /\ log[1].path = Path1(items)
    /\ log[1].methods = <<GET, POST>>
    /\ Served
    /\ last.method = DELETE
    /\ last.path = Path1(items)

CommaSpace == <<",", " ">>

\* C4 as stated: the answer is 405 and Allow is "GET, HEAD, POST, OPTIONS".
C4_AsStated ==
    ItemsScenario =>
        /\ last.status = StatusMethodNotAllowed
        /\ last.hasAllow
        /\ last.allow = GET \o CommaSpace \o HEAD \o CommaSpace \o POST
                        \o CommaSpace \o OPTIONS

\* C4, amended: the answer is 405 and Allow is "GET, POST, HEAD, OPTIONS":
\* the methods in registration order, the implied HEAD after the given ones.
C4_RegistrationOrder ==
    ItemsScenario =>
        /\ last.status = StatusMethodNotAllowed
        /\ last.hasAllow
        /\ last.allow = GET \o CommaSpace \o POST \o CommaSpace \o HEAD
                        \o CommaSpace \o OPTIONS

\* C4 witness: the scenario has happened.
C4_Witness == ItemsScenario

\* The methods the claim expects one Handle call to register: a method name
\* counts in any letter case, as Handle stores it in upper case.
ExpectedMethods(methods) ==
    LET given == [i \in DOMAIN methods |-> ToUpper(methods[i])]
    IN  IF Len(given) = 0 THEN allMethods
        ELSE IF Contains(given, GET) /\ ~Contains(given, HEAD)
        THEN Append(given, HEAD)
        ELSE given

\* C8: every Handle call appended one route per given method, plus HEAD when
\* GET is given and HEAD is not, or the nine standard methods when none is
\* given.
C8_OneRoutePerMethod ==
    \A k \in DOMAIN log :
        LET e == log[k]
        IN  /\ e.first + e.count - 1 <= Len(routes)
            /\ [i \in 1..e.count |-> routes[e.first + i - 1].method]
                   = ExpectedMethods(e.methods)

-----------------------------------------------------------------------------
(* Properties of the fallbacks (SpecFallback)                              *)

\* The fallback the claim names for the latest request, and the Router
\* field that holds its handler.
ExpectedFallback ==
    IF PathRoutes = {} THEN [target |-> "NotFound", field |-> NotFound]
    ELSE IF last.method = OPTIONS THEN [target |-> "Options", field |-> Options]
    ELSE [target |-> "MethodNotAllowed", field |-> MethodNotAllowed]

\* C2: without an exact match ServeHTTP calls exactly one fallback: Options
\* when the path is matched and the method is OPTIONS, MethodNotAllowed when
\* the path is matched and the method is not OPTIONS, NotFound when no route
\* matches the path.  The handler called is the one the Router field holds;
\* the defaults answer 204 with an empty body, 405 and 404.
C2_OneFallback ==
    (Served /\ ExactRoutes = {}) =>
        /\ Len(last.calls) = 1
        /\ last.calls[1].target = ExpectedFallback.target
        /\ Ran = <<[ev |-> "handler", id |-> ExpectedFallback.field.term]>>
        /\ ExpectedFallback.field = defaultOptions =>
              last.status = 204 /\ last.body = <<>>
        /\ ExpectedFallback.field = defaultMethodNotAllowed => last.status = 405
        /\ ExpectedFallback.field = defaultNotFound => last.status = 404

\* C2 witness: an OPTIONS request on a matched path without an OPTIONS route,
\* answered by a replaced Options handler while the other two are defaults.
C2_Witness ==
    /\ Served
    /\ ExactRoutes = {}
    /\ PathRoutes # {}
    /\ last.method = OPTIONS
    /\ Options # defaultOptions
    /\ NotFound = defaultNotFound
    /\ last.calls[1].handler.term = Options.term

-----------------------------------------------------------------------------
(* Properties of the matcher (SpecMatch)                                   *)

Matched == probe.kind = "matched"

\* The Handle call that registered route i, and the pattern it was given.
CallOf(i) == CHOOSE k \in DOMAIN log :
                 log[k].first <= i /\ i < log[k].first + log[k].count
PatternOf(i) == log[CallOf(i)].path

ProbeRoute == routes[probe.index]
ProbePattern == PatternOf(probe.index)
ProbeSegments == Split(probe.path, "/")

\* The number of /-separated segments of a path.
SegmentCount(path) == Cardinality({i \in DOMAIN path : path[i] = "/"}) + 1

EndsInWildcard(pattern) == HasSuffix(pattern, <<"/", ".", ".", ".">>)

\* Whether the regex matches the whole of s.
FullMatch(re, s) == (Len(s) + 1) \in RxEnds(re.items, 1, s, 1)

\* The positions of the pattern segments of the form :name|regex
RegexPositions(segments) ==
    {k \in DOMAIN segments :
        HasPrefix(segments[k], <<":">>) /\ Cut(segments[k], "|").found}

\* C5: a route with a regex-constrained parameter matches only when the
\* regex matches the whole of the corresponding request segment.
C5_RegexFullMatch ==
    (Matched /\ probe.result.ok) =>
        \A k \in RegexPositions(ProbeRoute.segments) :
            k <= Len(ProbeSegments) =>
                FullMatch(Compile(Cut(ProbeRoute.segments[k], "|").after),
                          ProbeSegments[k])

\* C6: a route whose pattern does not end in /... does not match a request
\* path with a different number of segments.
C6_SegmentCount ==
    (/\ Matched
     /\ ~EndsInWildcard(ProbePattern)
     /\ SegmentCount(probe.path) # SegmentCount(ProbePattern))
        => ~probe.result.ok

\* C6 witness: /items was tried on /items/1, which repeats every segment of
\* the pattern and has one more.
C6_Witness ==
    /\ Matched
    /\ ProbePattern = Path1(items)
    /\ probe.path = Path2(items, <<"1">>)

\* The text of path after its n-th slash.
RECURSIVE AfterSlash(_, _)
AfterSlash(path, n) ==
    IF n = 0 \/ Len(path) = 0 THEN path
    ELSE AfterSlash(Tail(path), IF Head(path) = "/" THEN n - 1 ELSE n)

\* The probed route is P/... with no ... inside P.
ProbeIsWildcard ==
    /\ EndsInWildcard(ProbePattern)
    /\ \A k \in 1..(Len(ProbeRoute.segments) - 1) :
          ProbeRoute.segments[k] # DotDotDot

\* The request path starts with segments that the prefix P matches.
ProbeHasPrefix ==
    LET n == Len(ProbeRoute.segments) - 1
        P == [segments |-> SubSeq(ProbeRoute.segments, 1, n), wildcard |-> FALSE]
    IN  /\ Len(ProbeSegments) >= n
        /\ match(P, Background, SubSeq(ProbeSegments, 1, n)).ok

\* C7: a wildcard route P/... matches every request path made of the prefix
\* P and one or more further segments, and binds "..." to the rest of the
\* path after the prefix; it does not match the prefix alone.
C7_WildcardTail ==
    (Matched /\ ProbeIsWildcard /\ ProbeHasPrefix) =>
        LET n == Len(ProbeRoute.segments) - 1
        IN  IF Len(ProbeSegments) > n
            THEN /\ probe.result.ok
                 /\ Param(probe.result.ctx, DotDotDot) = AfterSlash(probe.path, n)
            ELSE ~probe.result.ok

\* C7 witness: /files/... was tried on /files/a/b/c and bound a/b/c.
C7_Witness ==
    /\ Matched
    /\ ProbePattern = Path2(files, DotDotDot)
    /\ probe.path = Path3(files, <<"a">>, <<"b">>) \o Slash \o <<"c">>
    /\ probe.result.ok
    /\ Param(probe.result.ctx, DotDotDot) = <<"a", "/", "b", "/", "c">>

\* C7 second case: /files/... was tried on /files and did not match.
C7_PrefixAlone ==
    /\ Matched
    /\ ProbePattern = Path2(files, DotDotDot)
    /\ probe.path = Path1(files)
    /\ ~probe.result.ok

-----------------------------------------------------------------------------
(* Properties of the middlewares (SpecMw)                                  *)

\* The latest request was dispatched to a route; the Handle call behind it.
ToRoute == Served /\ last.calls[1].target = "route"
ServedCall == log[CallOf(last.calls[1].index)]

Enter(chain) == [i \in DOMAIN chain |-> [ev |-> "enter", id |-> chain[i]]]
Exit(chain) ==
    [i \in DOMAIN chain |-> [ev |-> "exit", id |-> chain[Len(chain) + 1 - i]]]

\* The events the claim expects of a request dispatched to a route that was
\* registered while the chain was m1..mn: the entry code of m1..mn in that
\* order, the terminal handler, the exit code of mn..m1, each once.
ExpectedEvents(call) ==
    Enter(call.chain)
    \o <<[ev |-> "handler", id |-> call.handler.term]>>
    \o Exit(call.chain)

\* C9: a request dispatched to a route runs the middlewares of the chain at
\* the route's registration in declaration order on the way in and in the
\* reverse order on the way out, around the terminal handler, each once.
C9_ChainOrder == ToRoute => last.events = ExpectedEvents(ServedCall)

\* The same for the routes registered with Router.Handle itself.
C9_DirectRoutes ==
    (ToRoute /\ ServedCall.via = 0) => last.events = ExpectedEvents(ServedCall)

\* A request dispatched to a route registered directly while the chain held
\* two different middlewares.
C9_DirectWitness ==
    /\ ToRoute
    /\ ServedCall.via = 0
    /\ Len(ServedCall.chain) = 2
    /\ ServedCall.chain[1] # ServedCall.chain[2]

\* How often x occurs in the sequence seq.
Occurrences(seq, x) == Cardinality({i \in DOMAIN seq : seq[i] = x})

\* How often the entry code of middleware x ran during the latest request.
Entered(x) == Cardinality({i \in DOMAIN last.events :
                              last.events[i] = [ev |-> "enter", id |-> x]})

AllMws == Mws \cup {"g1", "g2"}

\* C10: a request dispatched to a route registered through a group runs each
\* middleware of the group and each middleware of the router-wide chain once;
\* a request dispatched to a route registered on the router runs no
\* middleware of a group.
C10_GroupMiddlewares ==
    ToRoute =>
        \A x \in AllMws :
            Entered(x) =
                Occurrences(ServedCall.chain, x)
                + (IF ServedCall.via = 0 THEN 0
                   ELSE Occurrences(groups[ServedCall.via].middlewares, x))

\* The Router field behind the fallback called for the latest request.
FallbackField ==
    CASE last.calls[1].target = "NotFound" -> NotFound
      [] last.calls[1].target = "MethodNotAllowed" -> MethodNotAllowed
      [] last.calls[1].target = "Options" -> Options

\* C11 as stated: ServeHTTP applies no middleware to a handler, whatever the
\* outcome of the request.
C11_NoCompositionAtDispatch ==
    Served => \A k \in DOMAIN last.calls : last.calls[k].applied = <<>>

\* C11, amended: on an exact match ServeHTTP applies no middleware and calls
\* the handler as the route holds it since its registration; on each of the
\* three fallback outcomes it applies the router's whole chain, as it is at
\* the time of the request, to the fallback handler.
C11_CompositionAtDispatch ==
    Served =>
        /\ Len(last.calls) = 1
        /\ ToRoute =>
              /\ last.calls[1].applied = <<>>
              /\ last.calls[1].handler = routes[last.calls[1].index].handler
        /\ ~ToRoute =>
              /\ last.calls[1].applied = middlewares
              /\ last.calls[1].handler.chain = middlewares \o FallbackField.chain
              /\ last.calls[1].handler.term = FallbackField.term

\* C11 witness: a request dispatched to a route while the router's chain
\* holds a middleware that was added after the route's registration.
C11_Witness ==
    /\ ToRoute
    /\ Len(middlewares) > Len(ServedCall.chain)
    /\ last.calls[1].applied = <<>>

\* C11 second case: a 405 answered through a chain of two middlewares that
\* ServeHTTP applied to MethodNotAllowed.
C11_FallbackWrapped ==
    /\ Served
    /\ last.calls[1].target = "MethodNotAllowed"
    /\ Len(last.calls[1].applied) = 2

-----------------------------------------------------------------------------
(* Properties of the contexts handlers are given (SpecCtx)                 *)

\* The call of the latest request, the route behind it and the segments of
\* the request path.
TheCall == last.calls[1]
WonRoute == routes[TheCall.index]
ReqSegments == Split(last.path, "/")

\* The name of a pattern segment :name or :name|regex
ParamName(rs) == Cut(TrimPrefix(rs, <<":">>), "|").before

\* What the claims expect the winning route to bind: each parameter name to
\* the request segment at its position, and "..." to the rest of the path
\* when the pattern ends in /...
ExpectedBindings ==
    LET rs == WonRoute.segments
    IN  {[name |-> ParamName(rs[k]), value |-> ReqSegments[k]] :
            k \in {i \in DOMAIN rs : HasPrefix(rs[i], <<":">>)}}
        \cup (IF rs[Len(rs)] = DotDotDot
              THEN {[name |-> DotDotDot,
                     value |-> AfterSlash(last.path, Len(rs) - 1)]}
              ELSE {})

\* The value expected of Param for a name: the bound one, or "".
Expected(name) ==
    IF \E b \in ExpectedBindings : b.name = name
    THEN (CHOOSE b \in ExpectedBindings : b.name = name).value
    ELSE <<>>

CtxNames == {<<"x">>, <<"y">>, <<"z">>, <<"w">>, DotDotDot}

\* C12: on an exact match Param returns, for the context argument of the
\* handler and for the context of the request it receives, the matched
\* segment or tail for every name the winning route binds and "" for every
\* other name.
C12_PopulatedContext ==
    ToRoute =>
        \A name \in CtxNames :
            /\ Param(TheCall.ctx, name) = Expected(name)
            /\ Param(TheCall.reqctx, name) = Expected(name)

\* The part of C12 about the context of the request the handler receives.
C12_RequestContext ==
    ToRoute =>
        \A name \in CtxNames : Param(TheCall.reqctx, name) = Expected(name)

\* A request dispatched to a route that bound a parameter and a tail.
C12_RequestWitness ==
    /\ ToRoute
    /\ Param(TheCall.reqctx, <<"x">>) = <<"a">>
    /\ Param(TheCall.reqctx, DotDotDot) = <<"c", "/", "d">>

\* The parameter bindings a context holds.
Bindings(ctx) ==
    {[name |-> ctx[i].key.name, value |-> ctx[i].val.v] :
        i \in {k \in DOMAIN ctx : ctx[k].key.type = "ctxKey"}}

BindingCount(ctx) == Cardinality({k \in DOMAIN ctx : ctx[k].key.type = "ctxKey"})

\* C18: the bindings in the request context of the route handler called are
\* exactly those of the winning route's own match, one each; a fallback
\* handler is given no binding at all.
C18_NoPartialBinding ==
    Served =>
        /\ ToRoute =>
              /\ Bindings(TheCall.reqctx) = ExpectedBindings
              /\ BindingCount(TheCall.reqctx) = Cardinality(ExpectedBindings)
        /\ ~ToRoute =>
              /\ Bindings(TheCall.reqctx) = {}
              /\ Bindings(TheCall.ctx) = {}

\* The names route j binds before its match of the latest request ends.
TriedNames(j) ==
    {b.name : b \in Bindings(match(routes[j], Background, ReqSegments).ctx)}

\* C18 witness: the winning route comes after a route that matches the path
\* with a different method and binds names the winning route does not.
C18_Witness ==
    /\ ToRoute
    /\ \E j \in 1..(TheCall.index - 1) :
          /\ PathMatch(j)
          /\ \E n \in TriedNames(j) : \A b \in ExpectedBindings : b.name # n

\* C18 second case: the winning route comes after a route that bound a
\* name and then failed on a later segment.
C18_PartWayWitness ==
    /\ ToRoute
    /\ \E j \in 1..(TheCall.index - 1) :
          /\ ~PathMatch(j)
          /\ \E n \in TriedNames(j) : \A b \in ExpectedBindings : b.name # n

\* C18 third case: a 405 for a path that a route with parameters matches.
C18_FallbackWitness ==
    /\ Served
    /\ TheCall.target = "MethodNotAllowed"
    /\ \E j \in PathRoutes : TriedNames(j) # {}

\* The Values ServeHTTP stored in the context argument of the call.
TheValues == Value(TheCall.ctx, contextKey(1))

\* The names a handler may try on Param for the trace identifier and the
\* timestamp: the field names, the header name, and every name a route binds.
TraceNames ==
    { <<"T", "r", "a", "c", "e", "I", "D">>, <<"N", "o", "w">>,
      <<"X", "-", "T", "r", "a", "c", "e", "-", "I", "D">> } \cup CtxNames

\* C13: every dispatch, to a route or to a fallback, puts one trace
\* identifier in the response header and in the context given to the handler
\* together with a timestamp, and Param returns the trace identifier from
\* that context under some name.
C13_TraceValues ==
    Served =>
        /\ TheValues.type = "Values"
        /\ TheValues.TraceID = last.traceHeader
        /\ TheValues.Now \in Times
        /\ \E name \in TraceNames : Param(TheCall.ctx, name) = last.traceHeader

\* The part of C13 about the header and the context argument.
C13_HeaderAndContext ==
    Served =>
        /\ TheValues.type = "Values"
        /\ TheValues.TraceID = last.traceHeader
        /\ TheValues.Now \in Times

\* What Param does with the context argument: it returns "" for every name,
\* as the Values are stored under a contextKey and are not a string.
C13_ParamFindsNothing ==
    Served => \A name \in TraceNames : Param(TheCall.ctx, name) = <<>>

\* The context of the request a route handler receives holds no Values.
C13_RequestWithoutValues ==
    ToRoute => Value(TheCall.reqctx, contextKey(1)).type = "nil"

-----------------------------------------------------------------------------
(* Properties of patterns with ... inside (SpecMatch)                      *)

IsLiteral(rs) == rs # DotDotDot /\ ~HasPrefix(rs, <<":">>)

\* C19: when a pattern has segments after a ... segment, a match is not
\* reported without them: every literal segment after the ... equals the
\* request segment at its position.
C19_WildcardOnlyFinal ==
    (Matched /\ probe.result.ok) =>
        LET rs == ProbeRoute.segments
        IN  \A k \in DOMAIN rs :
                rs[k] = DotDotDot =>
                    \A j \in (k + 1)..Len(rs) :
                        IsLiteral(rs[j]) =>
                            /\ j <= Len(ProbeSegments)
                            /\ ProbeSegments[j] = rs[j]

\* /a/.../b tried on /a/x/y: a match, with ... bound to x/y.
C19_ShortCircuit ==
    /\ Matched
    /\ ProbePattern = Path3(<<"a">>, DotDotDot, <<"b">>)
    /\ probe.path = Path3(<<"a">>, <<"x">>, <<"y">>)
    /\ probe.result.ok
    /\ Param(probe.result.ctx, DotDotDot) = <<"x", "/", "y">>

-----------------------------------------------------------------------------
(* Properties of the Allow header (Spec)                                   *)

\* The method names of an Allow header value, in order.
AllowList(value) ==
    LET parts == Split(value, ",")
    IN  [i \in DOMAIN parts |-> TrimPrefix(parts[i], <<" ">>)]

\* C20: the Allow header value lists no method more than once.
C20_AllowNoDuplicates ==
    (Served /\ last.hasAllow) =>
        \A i, j \in DOMAIN AllowList(last.allow) :
            i # j => AllowList(last.allow)[i] # AllowList(last.allow)[j]

\* The part of C20 about the methods collected from the routes: a
\* pattern/method pair registered twice is listed once.
C20_RouteMethodsOnce ==
    (Served /\ last.hasAllow) =>
        LET list == AllowList(last.allow)
        IN  \A i, j \in 1..(Len(list) - 1) : i # j => list[i] # list[j]

\* A 405 for a path on which the same pattern/method pair is registered
\* twice.
C20_TwiceWitness ==
    /\ Served
    /\ last.hasAllow
    /\ \E i, j \in PathRoutes : i # j /\ routes[i].method = routes[j].method

-----------------------------------------------------------------------------
(* Properties of Run (SpecRun, SpecRunFair)                                *)

Returned == run.pc = "done"
ShutdownFailed == run.shutdown \in {DeadlineExceeded, ShutdownError}
CloseCalled == run.pc = "close" \/ run.close # "notcalled"
TaskEnded == run.task = "done"

\* C14: srv.Close is called only after an interrupt was received and taken
\* by the select and srv.Shutdown, given at most 5 seconds, returned an
\* error; it is not called when srv.Shutdown returned nil; and when the
\* select takes the result of the serve task neither is called.
C14_ForcedCloseOnlyAfterFailedShutdown ==
    /\ CloseCalled =>
          run.interrupts > 0 /\ run.selected = "signals" /\ ShutdownFailed
    /\ run.shutdown = nil => ~CloseCalled
    /\ run.shutdown # "notcalled" =>
          run.selected = "signals" /\ run.elapsed <= ShutdownTimeout
    /\ run.shutdown = DeadlineExceeded => run.elapsed = ShutdownTimeout
    /\ run.selected = "errs" =>
          run.shutdown = "notcalled" /\ run.close = "notcalled"

\* C14 witness: srv.Close was called after srv.Shutdown ran into its
\* timeout with a connection still busy.
C14_Witness ==
    /\ run.close # "notcalled"
    /\ run.shutdown = DeadlineExceeded
    /\ run.elapsed = ShutdownTimeout

\* C14 second case: the serve task failed with an interrupt already in the
\* channel, the select took the failure, and Run returned without shutdown.
C14_ServeFailedFirst ==
    /\ Returned
    /\ run.selected = "errs"
    /\ Len(run.signals) > 0
    /\ run.shutdown = "notcalled"

\* C15: Run returns the error ListenAndServe returned, except that it
\* returns the error of srv.Close when srv.Shutdown and then srv.Close
\* failed; it never returns the error of srv.Shutdown.
C15_ReturnValue ==
    Returned =>
        /\ run.close = CloseError => run.ret = CloseError
        /\ run.close # CloseError =>
              /\ run.ret = run.taskErr
              /\ run.ret \in {ListenError, ErrServerClosed}
        /\ run.ret \notin {DeadlineExceeded, ShutdownError}

\* C15 witness: srv.Shutdown failed, srv.Close succeeded, and Run returned
\* the ErrServerClosed of ListenAndServe.
C15_Witness ==
    /\ Returned
    /\ ShutdownFailed
    /\ run.close = nil
    /\ run.ret = ErrServerClosed

\* C15 second case: Run returned the error of srv.Close.
C15_CloseErrorReturned ==
    Returned /\ ShutdownFailed /\ run.ret = CloseError

\* C16: the select of Run takes exactly one of its two cases; the serve task
\* is never blocked on its send to errs; and after Run has returned the
\* interrupt subscription is not in force any more.
C16_NoLeak ==
    /\ Returned => run.selected \in {"errs", "signals"}
    /\ run.selected # "none" => run.pc \notin {"idle", "go", "notify", "select"}
    /\ run.task = "returned" => Len(run.errs) < ErrsCap
    /\ Returned => ~run.notify

\* The part of C16 about the select and the serve task.
C16_OneWinnerNoBlockedSend ==
    /\ Returned => run.selected \in {"errs", "signals"}
    /\ run.selected # "none" => run.pc \notin {"idle", "go", "notify", "select"}
    /\ run.task = "returned" => Len(run.errs) < ErrsCap

\* An interrupt taken into the channel signals after Run has returned.
C16_InterruptAfterReturn ==
    /\ Returned
    /\ run.selected = "errs"
    /\ run.notify
    /\ Len(run.signals) > 0

\* C17 as stated, without its part on eventual return: Run has not returned
\* while the serve task runs and no interrupt was received, and whenever Run
\* has returned the serve task has ended.
C17_ReturnsAfterServeEnded ==
    Returned =>
        /\ run.task = "serving" => run.interrupts > 0
        /\ TaskEnded

\* An interrupt is in the channel, or ListenAndServe has returned.
RunMustEnd == Len(run.signals) > 0 \/ run.task \in {"returned", "done"}

\* C17, amended: Run has not returned while the serve task runs and no
\* interrupt was received; whenever Run has returned the serve task has
\* ended, unless Run returned the error of a failed srv.Close; and once an
\* interrupt is in the channel or ListenAndServe has returned, Run
\* eventually returns.
C17_BlocksUntilExit ==
    /\ [](Returned => (run.task = "serving" => run.interrupts > 0))
    /\ [](Returned => (TaskEnded \/ run.close = CloseError))
    /\ (RunMustEnd ~> Returned)

\* C17 witness: Run returned after an interrupt and a shutdown that
\* succeeded, with the serve task ended.
C17_Witness ==
    /\ Returned
    /\ run.selected = "signals"
    /\ run.shutdown = nil
    /\ TaskEnded

\* Run returned the error of srv.Close while ListenAndServe had not returned.
C17_ReturnedWhileServing ==
    Returned /\ run.ret = CloseError /\ run.task = "serving"

-----------------------------------------------------------------------------
(* Properties of the regex cache (SpecRx)                                  *)

\* The regex source texts of the parameter segments of route i.
RegexTexts(i) ==
    {Cut(routes[i].segments[k], "|").after :
        k \in RegexPositions(routes[i].segments)}

\* C21: every regex-constrained parameter segment of every route in the
\* table has its compiled regex in the cache, no match looks up a source
\* text the cache does not hold, and no route in the table comes from a
\* Handle call that ended in the panic of an invalid regex.
C21_CacheComplete ==
    /\ \A i \in DOMAIN routes :
          /\ \A rx \in RegexTexts(i) :
                rx \in DOMAIN rxPatterns /\ rxPatterns[rx] = Compile(rx)
          /\ ~log[CallOf(i)].panicked
    /\ Matched => ~probe.result.panic

\* The same for the routes of the Handle calls that returned, and for the
\* cache alone: every entry is the compiled form of its own source text.
C21_ReturnedCallsCached ==
    /\ \A i \in DOMAIN routes :
          ~log[CallOf(i)].panicked =>
              \A rx \in RegexTexts(i) :
                  rx \in DOMAIN rxPatterns /\ rxPatterns[rx] = Compile(rx)
    /\ \A rx \in DOMAIN rxPatterns :
          rxPatterns[rx] = Compile(rx) /\ Compile(rx).valid

\* The same valid regex registered by two Handle calls, one cache entry.
C21_SameTextTwice ==
    /\ Len(log) = 2
    /\ log[1].path = log[2].path
    /\ ~log[1].panicked
    /\ Cardinality(DOMAIN rxPatterns) = 1

\* A route left by a Handle call that panicked was matched against a path
\* and looked up the regex that is not in the cache.
C21_MissingLookup == Matched /\ probe.result.panic

-----------------------------------------------------------------------------
(* Properties of Use and Handle in any order (SpecUse)                     *)

\* The middlewares whose entry code ran during the latest request, in order.
MwsRun ==
    LET enters == SelectSeq(last.events, LAMBDA e : e.ev = "enter")
    IN  [i \in DOMAIN enters |-> enters[i].id]

\* C22: a request dispatched to a route runs exactly the middlewares the
\* router held when Handle was called for the route; a request answered by
\* a fallback runs exactly the middlewares the router holds at the request.
C22_ChainAtRegistration ==
    Served =>
        /\ ToRoute => MwsRun = ServedCall.chain
        /\ ~ToRoute => MwsRun = middlewares

\* C22 witness: a route registered between two Use calls was requested and
\* ran the first middleware alone.
C22_Witness ==
    /\ ToRoute
    /\ Len(ServedCall.chain) = 1
    /\ Len(middlewares) = 2
    /\ middlewares[2] # middlewares[1]
    /\ MwsRun = <<middlewares[1]>>

\* C22 second case: a fallback answered after a Use that followed every
\* Handle call, and ran the middleware of that Use too.
C22_FallbackWitness ==
    /\ Served
    /\ ~ToRoute
    /\ Len(log) > 0
    /\ \A k \in DOMAIN log : Len(log[k].chain) < Len(middlewares)
    /\ MwsRun = middlewares

====
